---- MODULE Spec2Model ----
(***************************************************************************)
(* The client session layer of the mahjong server                          *)
(* (mahjong-server/src/client.rs): the handshake of a connection, the      *)
(* ClientController actor with its mailbox, its two message handlers       *)
(* handle_message and send_event, and the collaborators it calls: the      *)
(* Game Director (GameState) and the match controllers.                    *)
(***************************************************************************)
EXTENDS Integers, Sequences, FiniteSets, TLC

\* The connections of the model; a session is named after its connection.
Sessions == {"A", "B"}

\* Bound: messages enqueued into all mailboxes together.
MaxMsgs == 3

\* Bound: matches the Game Director starts.
MaxMatches == 2

\* env!("CARGO_PKG_VERSION") and a version that differs from it.
ServerVersion == "server"

Versions == {ServerVersion, "other"}

Seats == {"East", "South"}

Tiles == {"t1", "t2"}

None == <<>>

\* The panics of perform_handshake, by their messages.
PanicPing == "panic: Failed to send initial ping"

PanicVersion == "panic: not yet implemented: Handle incompatible client version"

PanicCredentials == "panic: not yet implemented: Support logging into an existing account"

Some(x) == <<x>>

VARIABLES
    hs_pc,      \* where perform_handshake of a connection stands
    hs_result,  \* what perform_handshake gave its caller
    hs_ops,     \* what perform_handshake did on the wire and to the director
    hs_account, \* the reply of create_account
    accounts,   \* Game Director: create_account calls handled, by caller
    out,        \* the frames written to the sink of a connection
    alive,      \* the actor of a session: "none", "running", "dead"
    state,      \* ClientController.state
    mailbox,    \* the messages waiting in the actor's mailbox
    enq,        \* messages enqueued into the mailbox so far
    pc,         \* the await point the running handler is suspended at
    cur,        \* the message of the handler that ran last
    ops,        \* what the handler that ran last did, in order
    call,       \* the call the handler awaits
    inflight,   \* the handlers that started and have not ended
    results,    \* the handlers that ended, in order, with their results
    matches,    \* Game Director: matches started
    joined,     \* match controller: the session handles it holds
    calls,      \* match controller: the calls it received, in order
    counter,    \* ClientIdGenerator: the value of its AtomicU64
    invoked,    \* a caller inside next(): the calls that had returned by then
    issued,     \* the ids next() returned, in the order of the fetch_add
    ended       \* the calls of next() whose session has ended

hs_vars == <<hs_pc, hs_result, hs_ops, hs_account, accounts>>

actor_vars == <<alive, state, mailbox, enq, pc, cur, ops, call, inflight, results>>

match_vars == <<matches, joined, calls>>

id_vars == <<counter, invoked, issued, ended>>

vars == <<hs_pc, hs_result, hs_ops, hs_account, accounts, out, alive, state,
          mailbox, enq, pc, cur, ops, call, inflight, results, matches, joined,
          calls, counter, invoked, issued, ended>>

session_vars == <<hs_vars, out, actor_vars, match_vars>>

Matches == 1..MaxMatches

\* Bound: the width in bits of the id counter, 64 in the program.
IdBits == 2

\* Bound: calls of ClientIdGenerator::next.
MaxCalls == 5

\* The values of the counter: 0 .. 2^IdBits - 1.
IdModulus == 2 ^ IdBits

\* The threads that call ClientIdGenerator::next.
Callers == {"t1", "t2"}

NotCalling == -1

----------------------------------------------------------------------------
\* Frames and their payloads.

\* WsMessage: a text frame with its payload, or a frame that is not text.
TextFrame(body) == [text |-> TRUE, body |-> body]

BinaryFrame == [text |-> FALSE, body |-> [tag |-> "bytes"]]

\* WsMessage::to_str: Err for a frame that is not text.
to_str(frame) == IF frame.text THEN [ok |-> TRUE, str |-> frame.body]
                 ELSE [ok |-> FALSE]

\* A payload that is no JSON, and a JSON value with a tag no request has.
Garbage == [tag |-> "garbage"]

UnknownTag == [tag |-> "Bogus"]

HandshakeRequest(v, c) ==
    [tag |-> "HandshakeRequest", client_version |-> v, credentials |-> c]

StartMatch == [tag |-> "StartMatch"]

DiscardTile(p, t) == [tag |-> "DiscardTile", player |-> p, tile |-> t]

\* serde_json::from_str::<HandshakeRequest>
from_str_HandshakeRequest(str) ==
    IF str.tag = "HandshakeRequest" THEN [ok |-> TRUE, value |-> str]
    ELSE [ok |-> FALSE]

\* serde_json::from_str::<ClientRequest>
from_str_ClientRequest(str) ==
    IF str.tag \in {"StartMatch", "DiscardTile"} THEN [ok |-> TRUE, value |-> str]
    ELSE [ok |-> FALSE]

Ping == TextFrame([tag |-> "ping"])

\* Mutant: the response gives no credentials to the client.
HandshakeResponseNoCredentials(account) ==
    TextFrame([tag |-> "HandshakeResponse", server_version |-> ServerVersion,
               new_credentials |-> None, account_data |-> account.data])

HandshakeResponse(account) ==
    TextFrame([tag |-> "HandshakeResponse", server_version |-> ServerVersion,
               new_credentials |-> Some(account.credentials),
               account_data |-> account.data])

StartMatchResponse(st) == TextFrame([tag |-> "StartMatchResponse", state |-> st])

MatchEvent(m, s) == [tag |-> "MatchEvent", match |-> m, session |-> s]

\* What the stream of a connection yields to the handshake.
HandshakeItems ==
    {[kind |-> "closed"], [kind |-> "error"]}
    \cup {[kind |-> "frame", frame |-> f] :
            f \in {BinaryFrame, TextFrame(Garbage), TextFrame(StartMatch)}
                  \cup {TextFrame(HandshakeRequest(v, c)) :
                          v \in Versions, c \in {None, Some("old")}}}

\* The frames the pump feeds to handle_message.
ClientFrames ==
    {BinaryFrame, TextFrame(Garbage), TextFrame(UnknownTag), TextFrame(StartMatch)}
    \cup {TextFrame(DiscardTile(p, t)) : p \in Seats, t \in Tiles}

Idle == [tag |-> "Idle"]

InMatch(m) == [tag |-> "InMatch", controller |-> m]

NoCall == [op |-> "none"]

NoMsg == [seq |-> 0, op |-> "none", arg |-> None]

----------------------------------------------------------------------------
Init ==
    /\ hs_pc = [c \in Sessions |-> "connected"]
    /\ hs_result = [c \in Sessions |-> "pending"]
    /\ hs_ops = [c \in Sessions |-> <<>>]
    /\ hs_account = [c \in Sessions |-> None]
    /\ accounts = [c \in Sessions |-> 0]
    /\ out = [c \in Sessions |-> <<>>]
    /\ alive = [c \in Sessions |-> "none"]
    /\ state = [c \in Sessions |-> Idle]
    /\ mailbox = [c \in Sessions |-> <<>>]
    /\ enq = [c \in Sessions |-> 0]
    /\ pc = [c \in Sessions |-> "idle"]
    /\ cur = [c \in Sessions |-> NoMsg]
    /\ ops = [c \in Sessions |-> <<>>]
    /\ call = [c \in Sessions |-> NoCall]
    /\ inflight = [c \in Sessions |-> {}]
    /\ results = [c \in Sessions |-> <<>>]
    /\ matches = 0
    /\ joined = [m \in Matches |-> {}]
    /\ calls = [m \in Matches |-> <<>>]
    /\ counter = 0
    /\ invoked = [t \in Callers |-> NotCalling]
    /\ issued = <<>>
    /\ ended = {}

----------------------------------------------------------------------------
\* perform_handshake

\* The end of perform_handshake without a session: Err or a panic.
HandshakeEnds(c, how) ==
    /\ hs_pc' = [hs_pc EXCEPT ![c] = "end"]
    /\ hs_result' = [hs_result EXCEPT ![c] = how]

\* sink.send(WsMessage::text("ping")).await.expect(..)
perform_handshake_ping(c) ==
    /\ hs_pc[c] = "connected"
    /\ \E sent \in BOOLEAN :
         IF sent
         THEN /\ out' = [out EXCEPT ![c] = Append(@, Ping)]
              /\ hs_ops' = [hs_ops EXCEPT ![c] = Append(@, "ping")]
              /\ hs_pc' = [hs_pc EXCEPT ![c] = "wait_request"]
              /\ UNCHANGED hs_result
         ELSE /\ HandshakeEnds(c, PanicPing)
              /\ UNCHANGED <<out, hs_ops>>
    /\ UNCHANGED <<id_vars, hs_account, accounts, actor_vars, match_vars>>

\* The handshake saw an inbound frame and, with more, went on.
Received(c, more) == hs_ops' = [hs_ops EXCEPT ![c] = Append(@, "recv") \o more]

\* stream.next() up to the call of create_account.
perform_handshake_request(c) ==
    /\ hs_pc[c] = "wait_request"
    /\ \E item \in HandshakeItems, up \in BOOLEAN :
         IF item.kind # "frame"
         THEN /\ HandshakeEnds(c, "Err")
              /\ UNCHANGED hs_ops
         ELSE LET text == to_str(item.frame)
                  request == from_str_HandshakeRequest(text.str)
              IN IF ~text.ok
                 THEN Received(c, <<>>) /\ HandshakeEnds(c, "Err")
                 ELSE IF ~request.ok
                 THEN Received(c, <<>>) /\ HandshakeEnds(c, "Err")
                 ELSE IF ServerVersion # request.value.client_version
                 THEN Received(c, <<>>) /\ HandshakeEnds(c, PanicVersion)
                 ELSE IF request.value.credentials # None
                 THEN Received(c, <<>>) /\ HandshakeEnds(c, PanicCredentials)
                 ELSE IF ~up
                 THEN Received(c, <<>>) /\ HandshakeEnds(c, "Err")
                 ELSE /\ Received(c, <<"create_account">>)
                      /\ hs_pc' = [hs_pc EXCEPT ![c] = "create_account"]
                      /\ UNCHANGED hs_result
    /\ UNCHANGED <<id_vars, hs_account, accounts, out, actor_vars, match_vars>>

\* GameState::create_account, as the handshake sees it: a new account.
create_account(c) ==
    /\ hs_pc[c] = "create_account"
    /\ accounts' = [accounts EXCEPT ![c] = @ + 1]
    /\ hs_account' = [hs_account EXCEPT ![c] =
          Some([credentials |-> <<c, accounts[c] + 1>>, data |-> c])]
    /\ hs_pc' = [hs_pc EXCEPT ![c] = "respond"]
    /\ UNCHANGED <<id_vars, hs_result, hs_ops, out, actor_vars, match_vars>>

\* StageBuilder::finish, tokio::spawn(stage.run()): the actor starts Idle.
SpawnActor(c) ==
    /\ alive' = [alive EXCEPT ![c] = "running"]
    /\ state' = [state EXCEPT ![c] = Idle]

\* Mutant: the actor is spawned before the response is sent.
perform_handshake_respond_spawn_first(c) ==
    /\ hs_pc[c] = "respond"
    /\ SpawnActor(c)
    /\ \E sent \in BOOLEAN :
         IF sent
         THEN /\ out' = [out EXCEPT ![c] =
                    Append(@, HandshakeResponse(hs_account[c][1]))]
              /\ hs_ops' = [hs_ops EXCEPT ![c] = @ \o <<"spawn", "response">>]
              /\ HandshakeEnds(c, "Ok")
         ELSE /\ HandshakeEnds(c, "Err")
              /\ hs_ops' = [hs_ops EXCEPT ![c] = Append(@, "spawn")]
              /\ UNCHANGED out
    /\ UNCHANGED <<id_vars, hs_account, accounts, mailbox, enq, pc, cur, ops, call,
                   inflight, results, match_vars>>

\* Mutant: a failed send of the response panics, as that of the ping does.
perform_handshake_respond_expect(c) ==
    /\ hs_pc[c] = "respond"
    /\ \E sent \in BOOLEAN :
         IF sent
         THEN /\ out' = [out EXCEPT ![c] =
                    Append(@, HandshakeResponse(hs_account[c][1]))]
              /\ hs_ops' = [hs_ops EXCEPT ![c] = @ \o <<"response", "spawn">>]
              /\ SpawnActor(c)
              /\ HandshakeEnds(c, "Ok")
         ELSE /\ HandshakeEnds(c, PanicPing)
              /\ UNCHANGED <<out, hs_ops, alive, state>>
    /\ UNCHANGED <<id_vars, hs_account, accounts, mailbox, enq, pc, cur, ops, call,
                   inflight, results, match_vars>>

\* The HandshakeResponse, the spawn of the actor and Ok((client, stream)).
perform_handshake_respond(c) ==
    /\ hs_pc[c] = "respond"
    /\ \E sent \in BOOLEAN :
         IF sent
         THEN /\ out' = [out EXCEPT ![c] =
                    Append(@, HandshakeResponse(hs_account[c][1]))]
              /\ hs_ops' = [hs_ops EXCEPT ![c] = @ \o <<"response", "spawn">>]
              /\ SpawnActor(c)
              /\ HandshakeEnds(c, "Ok")
         ELSE /\ HandshakeEnds(c, "Err")
              /\ UNCHANGED <<out, hs_ops, alive, state>>
    /\ UNCHANGED <<id_vars, hs_account, accounts, mailbox, enq, pc, cur, ops, call,
                   inflight, results, match_vars>>

----------------------------------------------------------------------------
\* The actor runtime: the mailbox of a session and the senders into it.

RECURSIVE SumOver(_, _)
SumOver(f, S) ==
    IF S = {} THEN 0
    ELSE LET x == CHOOSE y \in S : TRUE IN f[x] + SumOver(f, S \ {x})

\* A proxy call: the message goes to the end of the mailbox of a running actor.
Enqueue(s, op, arg) ==
    /\ alive[s] = "running"
    /\ SumOver(enq, Sessions) < MaxMsgs
    /\ enq' = [enq EXCEPT ![s] = @ + 1]
    /\ mailbox' = [mailbox EXCEPT ![s] =
          Append(@, [seq |-> enq[s] + 1, op |-> op, arg |-> arg])]

\* The pump of the connection: every inbound frame becomes a handle_message.
pump(s) ==
    /\ hs_result[s] = "Ok"
    /\ \E frame \in ClientFrames : Enqueue(s, "handle_message", frame)
    /\ UNCHANGED <<id_vars, hs_vars, out, alive, state, pc, cur, ops, call, inflight,
                   results, match_vars>>

\* A match controller pushes an event to a session whose handle it holds.
push_event(m, s) ==
    /\ s \in joined[m]
    /\ Enqueue(s, "send_event", MatchEvent(m, s))
    /\ UNCHANGED <<id_vars, hs_vars, out, alive, state, pc, cur, ops, call, inflight,
                   results, match_vars>>

Last(seq) == seq[Len(seq)]

Front(seq) == SubSeq(seq, 1, Len(seq) - 1)

\* Mutant: the mailbox gives its newest message first.
TakesLast(s, op) ==
    /\ alive[s] = "running"
    /\ pc[s] = "idle"
    /\ mailbox[s] # <<>>
    /\ Last(mailbox[s]).op = op
    /\ mailbox' = [mailbox EXCEPT ![s] = Front(@)]
    /\ cur' = [cur EXCEPT ![s] = Last(mailbox[s])]

\* The runtime takes the next message when no handler of the actor runs.
Takes(s, op) ==
    /\ alive[s] = "running"
    /\ pc[s] = "idle"
    /\ mailbox[s] # <<>>
    /\ Head(mailbox[s]).op = op
    /\ mailbox' = [mailbox EXCEPT ![s] = Tail(@)]
    /\ cur' = [cur EXCEPT ![s] = Head(mailbox[s])]

\* The handler returns (Ok, Err) or panics, which ends the actor's task.
Ends(s, msg, res) ==
    /\ results' = [results EXCEPT ![s] =
          Append(@, [seq |-> msg.seq, op |-> msg.op, arg |-> msg.arg, res |-> res])]
    /\ inflight' = [inflight EXCEPT ![s] = @ \ {msg.seq}]
    /\ pc' = [pc EXCEPT ![s] = "idle"]
    /\ alive' = [alive EXCEPT ![s] = IF res = "Panic" THEN "dead" ELSE @]
    /\ call' = [call EXCEPT ![s] = NoCall]

\* Mutant: the call is left to a detached task and the handler returns.
AwaitDetached(s, at) == pc' = [pc EXCEPT ![s] = "idle"]

\* `.await` on the reply of a call: the handler stays the one in flight.
Await(s, at) == pc' = [pc EXCEPT ![s] = at]

\* The handler sent a call to another actor and awaits the reply.
Suspends(s, msg, at, c) ==
    /\ Await(s, at)
    /\ inflight' = [inflight EXCEPT ![s] = @ \cup {msg.seq}]
    /\ call' = [call EXCEPT ![s] = c]
    /\ UNCHANGED <<results, alive>>

Sent(op, to, arg) == [op |-> op, to |-> to, arg |-> arg, status |-> "sent"]

Replied(c, ret) == [c EXCEPT !.status = "done"] @@ [ret |-> ret]

----------------------------------------------------------------------------
\* ClientController

\* Mutant: the frame goes to the sink of another session.
send_text_other_sink(s, text, sent) ==
    LET b == CHOOSE x \in Sessions : x # s
    IN out' = [out EXCEPT ![b] = IF sent THEN Append(@, TextFrame(text)) ELSE @]

\* send_text: one text frame to the sink of the session, or an error.
send_text(s, text, sent) ==
    out' = [out EXCEPT ![s] = IF sent THEN Append(@, TextFrame(text)) ELSE @]

\* Mutant: the error is unwrapped, which panics.
BailsPanics(s, msg) ==
    /\ Ends(s, msg, "Panic")
    /\ ops' = [ops EXCEPT ![s] = <<>>]

\* bail!, and `?` on an Err: the handler returns the error to its caller.
Bails(s, msg) ==
    /\ Ends(s, msg, "Err")
    /\ ops' = [ops EXCEPT ![s] = <<>>]

\* unwrap, expect on a call whose receiver is gone: the handler panics.
CallPanics(s, msg) ==
    /\ Ends(s, msg, "Panic")
    /\ ops' = [ops EXCEPT ![s] = <<>>]

\* Mutant: StartMatch is refused when the session is in a match already.
request_start_match_checked(s, msg) ==
    IF state[s].tag = "InMatch"
    THEN Bails(s, msg)
    ELSE \E up \in BOOLEAN :
            IF up
            THEN /\ Suspends(s, msg, "start_match", Sent("start_match", "game", None))
                 /\ ops' = [ops EXCEPT ![s] = <<[op |-> "start_match"]>>]
            ELSE CallPanics(s, msg)

\* ClientRequest::StartMatch, up to the await of start_match.
request_start_match(s, msg) ==
    \E up \in BOOLEAN :
       IF up
       THEN /\ Suspends(s, msg, "start_match", Sent("start_match", "game", None))
            /\ ops' = [ops EXCEPT ![s] = <<[op |-> "start_match"]>>]
       ELSE CallPanics(s, msg)

\* Mutant: a discard outside a match is dropped and reported as done.
request_discard_tile_ignored(s, msg, request) ==
    IF state[s].tag # "InMatch"
    THEN /\ Ends(s, msg, "Ok")
         /\ ops' = [ops EXCEPT ![s] = <<>>]
    ELSE LET controller == state[s].controller
         IN \E up \in BOOLEAN :
               IF up
               THEN /\ Suspends(s, msg, "discard_tile",
                                Sent("discard_tile", controller,
                                     <<request.player, request.tile>>))
                    /\ ops' = [ops EXCEPT ![s] =
                          <<[op |-> "discard_tile", to |-> controller,
                             player |-> request.player, tile |-> request.tile]>>]
               ELSE CallPanics(s, msg)

\* Mutant: the discard is forwarded for the seat the session joined as.
request_discard_tile_as_east(s, msg, request) ==
    IF state[s].tag # "InMatch"
    THEN Bails(s, msg)
    ELSE LET controller == state[s].controller
         IN \E up \in BOOLEAN :
               IF up
               THEN /\ Suspends(s, msg, "discard_tile",
                                Sent("discard_tile", controller,
                                     <<"East", request.tile>>))
                    /\ ops' = [ops EXCEPT ![s] =
                          <<[op |-> "discard_tile", to |-> controller,
                             player |-> "East", tile |-> request.tile]>>]
               ELSE CallPanics(s, msg)

\* ClientRequest::DiscardTile, up to the await of discard_tile.
request_discard_tile(s, msg, request) ==
    IF state[s].tag # "InMatch"
    THEN Bails(s, msg)
    ELSE LET controller == state[s].controller
         IN \E up \in BOOLEAN :
               IF up
               THEN /\ Suspends(s, msg, "discard_tile",
                                Sent("discard_tile", controller,
                                     <<request.player, request.tile>>))
                    /\ ops' = [ops EXCEPT ![s] =
                          <<[op |-> "discard_tile", to |-> controller,
                             player |-> request.player, tile |-> request.tile]>>]
               ELSE CallPanics(s, msg)

\* handle_message, from the frame to its first await or its return.
handle_message(s) ==
    /\ Takes(s, "handle_message")
    /\ LET msg == cur'[s]
           text == to_str(msg.arg)
           request == from_str_ClientRequest(text.str)
       IN IF ~text.ok THEN Bails(s, msg)
          ELSE IF ~request.ok THEN Bails(s, msg)
          ELSE IF request.value.tag = "StartMatch" THEN request_start_match(s, msg)
          ELSE request_discard_tile(s, msg, request.value)
    /\ UNCHANGED <<id_vars, hs_vars, out, state, enq, match_vars>>

\* handle_message after start_match replied: the join of the new match.
start_match_returned(s) ==
    /\ pc[s] = "start_match"
    /\ call[s].op = "start_match"
    /\ call[s].status = "done"
    /\ LET controller == call[s].ret
       IN \E up \in BOOLEAN :
             IF up
             THEN /\ Suspends(s, cur[s], "join",
                              Sent("join", controller, <<s, "East">>))
                  /\ ops' = [ops EXCEPT ![s] =
                        Append(@, [op |-> "join", to |-> controller,
                                   handle |-> s, seat |-> "East"])]
             ELSE /\ Ends(s, cur[s], "Panic")
                  /\ UNCHANGED ops
    /\ UNCHANGED <<id_vars, hs_vars, out, state, mailbox, enq, cur, match_vars>>

\* Mutant: the state is set before the response is written.
join_returned_state_first(s) ==
    /\ pc[s] = "join"
    /\ call[s].op = "join"
    /\ call[s].status = "done"
    /\ LET controller == call[s].to
           reply == call[s].ret
           response == [tag |-> "StartMatchResponse", state |-> reply.value]
       IN IF ~reply.ok
          THEN /\ Ends(s, cur[s], "Panic")
               /\ UNCHANGED <<out, state, ops>>
          ELSE \E sent \in BOOLEAN :
                  /\ state' = [state EXCEPT ![s] = InMatch(controller)]
                  /\ send_text(s, response, sent)
                  /\ ops' = [ops EXCEPT ![s] = @ \o
                        <<[op |-> "state", state |-> InMatch(controller)]>>
                        \o (IF sent
                            THEN <<[op |-> "write", frame |-> TextFrame(response)]>>
                            ELSE <<>>)]
                  /\ Ends(s, cur[s], IF sent THEN "Ok" ELSE "Err")
    /\ UNCHANGED <<id_vars, hs_vars, mailbox, enq, cur, match_vars>>

\* Mutant: a failed write of the response puts the session back to Idle.
join_returned_reset_on_error(s) ==
    /\ pc[s] = "join"
    /\ call[s].op = "join"
    /\ call[s].status = "done"
    /\ LET controller == call[s].to
           reply == call[s].ret
           response == [tag |-> "StartMatchResponse", state |-> reply.value]
       IN IF ~reply.ok
          THEN /\ Ends(s, cur[s], "Panic")
               /\ UNCHANGED <<out, state, ops>>
          ELSE \E sent \in BOOLEAN :
                  /\ send_text(s, response, sent)
                  /\ IF sent
                     THEN /\ state' = [state EXCEPT ![s] = InMatch(controller)]
                          /\ ops' = [ops EXCEPT ![s] = @ \o
                                <<[op |-> "write", frame |-> TextFrame(response)],
                                  [op |-> "state", state |-> InMatch(controller)]>>]
                          /\ Ends(s, cur[s], "Ok")
                     ELSE /\ state' = [state EXCEPT ![s] = Idle]
                          /\ Ends(s, cur[s], "Err")
                          /\ UNCHANGED ops
    /\ UNCHANGED <<id_vars, hs_vars, mailbox, enq, cur, match_vars>>

\* handle_message after join replied: the response and the new state.
join_returned(s) ==
    /\ pc[s] = "join"
    /\ call[s].op = "join"
    /\ call[s].status = "done"
    /\ LET controller == call[s].to
           reply == call[s].ret
           response == [tag |-> "StartMatchResponse", state |-> reply.value]
       IN IF ~reply.ok
          THEN /\ Ends(s, cur[s], "Panic")
               /\ UNCHANGED <<out, state, ops>>
          ELSE \E sent \in BOOLEAN :
                  /\ send_text(s, response, sent)
                  /\ IF sent
                     THEN /\ state' = [state EXCEPT ![s] = InMatch(controller)]
                          /\ ops' = [ops EXCEPT ![s] = @ \o
                                <<[op |-> "write", frame |-> TextFrame(response)],
                                  [op |-> "state", state |-> InMatch(controller)]>>]
                          /\ Ends(s, cur[s], "Ok")
                     ELSE /\ Ends(s, cur[s], "Err")
                          /\ UNCHANGED <<state, ops>>
    /\ UNCHANGED <<id_vars, hs_vars, mailbox, enq, cur, match_vars>>

\* handle_message after discard_tile replied.
discard_tile_returned(s) ==
    /\ pc[s] = "discard_tile"
    /\ call[s].op = "discard_tile"
    /\ call[s].status = "done"
    /\ Ends(s, cur[s], IF call[s].ret.ok THEN "Ok" ELSE "Panic")
    /\ UNCHANGED <<id_vars, hs_vars, out, state, mailbox, enq, cur, ops, match_vars>>

\* Mutant: the event is written whatever the state.
send_event_unchecked(s) ==
    /\ Takes(s, "send_event")
    /\ LET msg == cur'[s]
           event == msg.arg
       IN \E sent \in BOOLEAN :
             /\ send_text(s, event, sent)
             /\ ops' = [ops EXCEPT ![s] =
                   IF sent THEN <<[op |-> "write", frame |-> TextFrame(event)]>>
                   ELSE <<>>]
             /\ Ends(s, msg, IF sent THEN "Ok" ELSE "Panic")
    /\ UNCHANGED <<id_vars, hs_vars, state, enq, match_vars>>

\* send_event
send_event(s) ==
    /\ Takes(s, "send_event")
    /\ LET msg == cur'[s]
           event == msg.arg
       IN IF state[s].tag # "InMatch"
          THEN /\ Ends(s, msg, "Panic")
               /\ ops' = [ops EXCEPT ![s] = <<>>]
               /\ UNCHANGED out
          ELSE \E sent \in BOOLEAN :
                  /\ send_text(s, event, sent)
                  /\ ops' = [ops EXCEPT ![s] =
                        IF sent THEN <<[op |-> "write", frame |-> TextFrame(event)]>>
                        ELSE <<>>]
                  /\ Ends(s, msg, IF sent THEN "Ok" ELSE "Panic")
    /\ UNCHANGED <<id_vars, hs_vars, state, enq, match_vars>>

----------------------------------------------------------------------------
\* The collaborators, as the session sees them.

\* GameState::start_match: a new match controller.
start_match(s) ==
    /\ call[s].op = "start_match"
    /\ call[s].status = "sent"
    /\ matches < MaxMatches
    /\ matches' = matches + 1
    /\ call' = [call EXCEPT ![s] = Replied(@, matches + 1)]
    /\ UNCHANGED <<id_vars, hs_vars, out, alive, state, mailbox, enq, pc, cur, ops,
                   inflight, results, joined, calls>>

\* MatchController::join: the controller keeps the handle when it accepts.
join(m, s) ==
    /\ call[s].op = "join"
    /\ call[s].to = m
    /\ call[s].status = "sent"
    /\ calls' = [calls EXCEPT ![m] =
          Append(@, [op |-> "join", handle |-> call[s].arg[1],
                     seat |-> call[s].arg[2]])]
    /\ \E accept \in BOOLEAN :
          /\ joined' = [joined EXCEPT ![m] =
                IF accept THEN @ \cup {call[s].arg[1]} ELSE @]
          /\ call' = [call EXCEPT ![s] = Replied(@,
                IF accept THEN [ok |-> TRUE, value |-> [match |-> m]]
                ELSE [ok |-> FALSE])]
    /\ UNCHANGED <<id_vars, hs_vars, out, alive, state, mailbox, enq, pc, cur, ops,
                   inflight, results, matches>>

\* MatchController::discard_tile: Ok, or Err for a discard it rejects.
discard_tile(m, s) ==
    /\ call[s].op = "discard_tile"
    /\ call[s].to = m
    /\ call[s].status = "sent"
    /\ calls' = [calls EXCEPT ![m] =
          Append(@, [op |-> "discard_tile", player |-> call[s].arg[1],
                     tile |-> call[s].arg[2]])]
    /\ \E legal \in BOOLEAN :
          call' = [call EXCEPT ![s] = Replied(@, [ok |-> legal])]
    /\ UNCHANGED <<id_vars, hs_vars, out, alive, state, mailbox, enq, pc, cur, ops,
                   inflight, results, matches, joined>>

----------------------------------------------------------------------------
Next ==
    \/ \E c \in Sessions : perform_handshake_ping(c)
    \/ \E c \in Sessions : perform_handshake_request(c)
    \/ \E c \in Sessions : create_account(c)
    \/ \E c \in Sessions : perform_handshake_respond(c)
    \/ \E s \in Sessions : pump(s)
    \/ \E m \in Matches, s \in Sessions : push_event(m, s)
    \/ \E s \in Sessions : handle_message(s)
    \/ \E s \in Sessions : start_match_returned(s)
    \/ \E s \in Sessions : join_returned(s)
    \/ \E s \in Sessions : discard_tile_returned(s)
    \/ \E s \in Sessions : send_event(s)
    \/ \E s \in Sessions : start_match(s)
    \/ \E m \in Matches, s \in Sessions : join(m, s)
    \/ \E m \in Matches, s \in Sessions : discard_tile(m, s)

Spec == Init /\ [][Next]_vars

----------------------------------------------------------------------------
\* ClientIdGenerator

\* Mutant: the counter is read and not incremented.
fetch_add_lost(c) == c

\* AtomicU64::fetch_add(1, SeqCst): the new value of the counter, wrapping.
fetch_add(c) == (c + 1) % IdModulus

\* A thread calls next().
call_next(t) ==
    /\ invoked[t] = NotCalling
    /\ Len(issued) + Cardinality({u \in Callers : invoked[u] # NotCalling}) < MaxCalls
    /\ invoked' = [invoked EXCEPT ![t] = Len(issued)]
    /\ UNCHANGED <<counter, issued, ended, session_vars>>

\* next(): the atomic fetch_add and the ClientId of the previous value, with
\* which a session becomes active.
ClientIdGenerator_next(t) ==
    /\ invoked[t] # NotCalling
    /\ counter' = fetch_add(counter)
    /\ issued' = Append(issued, [by |-> t, id |-> counter, inv |-> invoked[t]])
    /\ invoked' = [invoked EXCEPT ![t] = NotCalling]
    /\ UNCHANGED <<ended, session_vars>>

\* The session that got the id of call i ends.
session_ends(i) ==
    /\ i \in DOMAIN issued \ ended
    /\ ended' = ended \cup {i}
    /\ UNCHANGED <<counter, invoked, issued, session_vars>>

IdNext ==
    \/ \E t \in Callers : call_next(t)
    \/ \E t \in Callers : ClientIdGenerator_next(t)
    \/ \E i \in 1..MaxCalls : session_ends(i)

SpecIds == Init /\ [][IdNext]_vars

----------------------------------------------------------------------------
\* What a step shows of the handlers of a session.

\* The actor takes a message: a handler starts.
Took(s) == cur'[s] # cur[s]

\* A handler ends in this step, with LastResult(s)' as its result.
Returned(s) == Len(results'[s]) = Len(results[s]) + 1

LastResult(s) == Last(results[s])

MalformedFrames == {BinaryFrame, TextFrame(Garbage), TextFrame(UnknownTag)}

DiscardFrames == {TextFrame(DiscardTile(p, t)) : p \in Seats, t \in Tiles}

IsPrefix(a, b) == Len(a) <= Len(b) /\ SubSeq(b, 1, Len(a)) = a

----------------------------------------------------------------------------
\* C1: in every session at most one handler (handle_message or send_event)
\* is in flight at any time, and while a handler is in flight, suspended on
\* the reply of start_match, join or discard_tile, no other handler of the
\* session starts and nothing but that handler changes the session's state.
C1_OneOperationInFlight ==
    [][\A s \in Sessions :
          /\ Cardinality(inflight'[s]) <= 1
          /\ inflight[s] # {} =>
                /\ inflight[s] = {cur[s].seq}
                /\ cur'[s] = cur[s]
                /\ state'[s] # state[s] => Returned(s)]_vars

\* A handler is suspended on a reply while a client request and an event
\* wait in the mailbox of its session.
C1_Witness ==
    \E s \in Sessions :
       /\ pc[s] \in {"start_match", "join", "discard_tile"}
       /\ inflight[s] # {}
       /\ \E i, j \in DOMAIN mailbox[s] :
             /\ mailbox[s][i].op = "handle_message"
             /\ mailbox[s][j].op = "send_event"

\* C2: the messages of a session are handled in the order they were
\* enqueued: the handlers that ended are those of the messages 1, 2, .. in
\* this order, a handler in flight is that of the next message, and the
\* mailbox holds the later ones in the order of their enqueueing.
C2_MailboxFifo ==
    \A s \in Sessions :
       /\ \A i \in DOMAIN results[s] : results[s][i].seq = i
       /\ inflight[s] \subseteq {Len(results[s]) + 1}
       /\ cur[s].seq \in {Len(results[s]), Len(results[s]) + 1}
       /\ \A i \in DOMAIN mailbox[s] :
             mailbox[s][i].seq = enq[s] - Len(mailbox[s]) + i

\* Three messages of one session, requests of the client and an event of a
\* match controller among them, were handled.
C2_Witness ==
    \E s \in Sessions :
       /\ Len(results[s]) = 3
       /\ \E i, j \in DOMAIN results[s] :
             /\ results[s][i].op = "handle_message"
             /\ results[s][j].op = "send_event"

\* C3: the actor starts Idle; a StartMatch handler that returns Ok did, in
\* this order and nothing else, start_match, join(own handle, East) on the
\* controller start_match returned, the write of one match-start response
\* with the state join returned, and the transition to InMatch with that
\* controller; the state changes in no other step, so it is Idle until then.
C3_StartMatchSequence ==
    [][\A s \in Sessions :
          /\ (alive[s] = "none" /\ alive'[s] # "none") => state'[s] = Idle
          /\ (/\ Returned(s)
              /\ LastResult(s)'.op = "handle_message"
              /\ LastResult(s)'.arg = TextFrame(StartMatch)
              /\ LastResult(s)'.res = "Ok")
             => \E m \in Matches :
                   /\ call[s].op = "join" /\ call[s].to = m
                   /\ ops'[s] =
                        <<[op |-> "start_match"],
                          [op |-> "join", to |-> m, handle |-> s, seat |-> "East"],
                          [op |-> "write",
                           frame |-> StartMatchResponse(call[s].ret.value)],
                          [op |-> "state", state |-> InMatch(m)]>>
                   /\ calls[m] = <<[op |-> "join", handle |-> s, seat |-> "East"]>>
                   /\ m <= matches
                   /\ out'[s] = Append(out[s], StartMatchResponse(call[s].ret.value))
                   /\ state'[s] = InMatch(m)
          /\ state'[s] # state[s] =>
                /\ Returned(s)
                /\ LastResult(s)'.arg = TextFrame(StartMatch)
                /\ LastResult(s)'.res = "Ok"]_vars

\* A StartMatch handler has just returned Ok from Idle.
C3_Witness ==
    \E s \in Sessions :
       /\ Len(results[s]) = 1
       /\ LastResult(s).arg = TextFrame(StartMatch)
       /\ LastResult(s).res = "Ok"
       /\ state[s].tag = "InMatch"
       /\ Len(ops[s]) = 4

\* C4: a DiscardTile taken while the state is Idle returns Err in the same
\* step, calls neither a match controller nor the Game Director, writes no
\* frame, leaves the state Idle and the actor running, ready for the next
\* message of its mailbox.
C4_DiscardWhileIdle ==
    [][\A s \in Sessions :
          (/\ Took(s)
           /\ cur'[s].op = "handle_message"
           /\ cur'[s].arg \in DiscardFrames
           /\ state[s] = Idle)
          => /\ Returned(s)
             /\ LastResult(s)'.seq = cur'[s].seq
             /\ LastResult(s)'.res = "Err"
             /\ ops'[s] = <<>>
             /\ call'[s] = NoCall
             /\ UNCHANGED <<calls, matches, joined, out>>
             /\ state'[s] = Idle
             /\ alive'[s] = "running"
             /\ pc'[s] = "idle"
             /\ inflight'[s] = {}]_vars

\* A DiscardTile was rejected in an Idle session, which then handled the
\* next message.
C4_Witness ==
    \E s \in Sessions :
       /\ state[s] = Idle
       /\ \E i \in DOMAIN results[s] :
             /\ results[s][i].arg \in DiscardFrames
             /\ results[s][i].res = "Err"
             /\ i < Len(results[s])

\* C5: a MatchEvent frame is appended to the frames of a session only by a
\* send_event taken while the state is InMatch; a send_event taken while the
\* state is Idle writes no frame anywhere and panics, which ends the actor.
C5_EventOnlyInMatch ==
    [][\A s \in Sessions :
          /\ (/\ Took(s)
              /\ cur'[s].op = "send_event"
              /\ state[s].tag # "InMatch")
             => /\ out' = out
                /\ Returned(s)
                /\ LastResult(s)'.res = "Panic"
                /\ alive'[s] = "dead"
          /\ (/\ out'[s] # out[s]
              /\ Last(out'[s]).body.tag = "MatchEvent")
             => /\ state[s].tag = "InMatch"
                /\ Took(s)
                /\ cur'[s].op = "send_event"]_vars

\* A send_event was taken while the state was Idle.
C5_Witness ==
    \E s \in Sessions :
       /\ cur[s].op = "send_event"
       /\ state[s] = Idle
       /\ alive[s] = "dead"
       /\ LastResult(s).res = "Panic"

\* C6: a handshake that gave its caller a session sent the priming frame
\* first, then received the request, then had create_account called once,
\* then sent one HandshakeResponse with the server's version and the
\* credentials create_account returned, and spawned the actor last; no actor
\* exists before that, and the priming frame precedes the read of a frame.
C6_HandshakeRoundTrip ==
    \A c \in Sessions :
       /\ hs_ops[c] # <<>> => hs_ops[c][1] = "ping"
       /\ alive[c] # "none" => hs_result[c] = "Ok"
       /\ hs_result[c] = "Ok" =>
             /\ hs_ops[c] = <<"ping", "recv", "create_account", "response", "spawn">>
             /\ accounts[c] = 1
             /\ Len(out[c]) >= 2
             /\ out[c][1] = Ping
             /\ out[c][2].text
             /\ out[c][2].body.tag = "HandshakeResponse"
             /\ out[c][2].body.server_version = ServerVersion
             /\ out[c][2].body.new_credentials = Some(hs_account[c][1].credentials)
             /\ \A i \in DOMAIN out[c] :
                   i > 2 => out[c][i].body.tag \notin {"ping", "HandshakeResponse"}

\* A handshake ended with a session.
C6_Witness == \E c \in Sessions : hs_result[c] = "Ok" /\ alive[c] = "running"

\* C7: a handshake that ended with an error or a panic spawned no actor and
\* gave out no handle (nothing was ever enqueued), and read no second frame:
\* it is not retried.
C7_NoSessionOnFailure ==
    \A c \in Sessions :
       hs_result[c] \notin {"pending", "Ok"} =>
          /\ hs_pc[c] = "end"
          /\ alive[c] = "none"
          /\ enq[c] = 0
          /\ mailbox[c] = <<>>
          /\ Cardinality({i \in DOMAIN hs_ops[c] : hs_ops[c][i] = "recv"}) <= 1
          /\ Cardinality({i \in DOMAIN hs_ops[c] : hs_ops[c][i] = "ping"}) <= 1

\* One handshake failed at sending the response, another at the version.
C7_Witness ==
    \E c, d \in Sessions :
       /\ hs_result[c] = "Err"
       /\ accounts[c] = 1
       /\ hs_result[d] = PanicVersion

\* C8 (as claimed): a handshake never ends in the panic of one of the two
\* unimplemented branches; it returns an error to its caller.
C8_ExplicitErrorOutcome ==
    \A c \in Sessions : hs_result[c] \notin {PanicVersion, PanicCredentials}

\* C9: a handle_message of a frame that is not text or is no ClientRequest
\* returns Err in the same step, calls nobody, leaves the state of the
\* session as it was and the actor running, ready for the next message.
C9_MalformedFrameFailsOneOperation ==
    [][\A s \in Sessions :
          (/\ Took(s)
           /\ cur'[s].op = "handle_message"
           /\ cur'[s].arg \in MalformedFrames)
          => /\ Returned(s)
             /\ LastResult(s)'.seq = cur'[s].seq
             /\ LastResult(s)'.res = "Err"
             /\ call'[s] = NoCall
             /\ UNCHANGED <<calls, matches, joined>>
             /\ state'[s] = state[s]
             /\ alive'[s] = "running"
             /\ pc'[s] = "idle"
             /\ inflight'[s] = {}]_vars

\* A session in a match failed a malformed frame and then handled the next
\* request with success.
C9_Witness ==
    \E s \in Sessions :
       /\ Len(results[s]) = 3
       /\ results[s][1].res = "Ok"
       /\ results[s][2].arg \in MalformedFrames
       /\ results[s][2].res = "Err"
       /\ results[s][3].res = "Ok"
       /\ state[s].tag = "InMatch"

\* C10 (as claimed): the handler of a malformed frame writes one frame, the
\* error response, to the transport of its session.
C10_MalformedReportedToClient ==
    [][\A s \in Sessions :
          (/\ Took(s)
           /\ cur'[s].op = "handle_message"
           /\ cur'[s].arg \in MalformedFrames)
          => Len(out'[s]) = Len(out[s]) + 1]_vars

\* C11 (as claimed): when the match controller rejects a forwarded discard,
\* the handler returns Err and writes one error response to the client, and
\* the session stays InMatch with the same controller, running and ready
\* for the next message.
C11_DiscardFailureSurfaced ==
    [][\A s \in Sessions :
          (/\ pc[s] = "discard_tile"
           /\ call[s].op = "discard_tile"
           /\ call[s].status = "done"
           /\ ~call[s].ret.ok
           /\ Returned(s))
          => /\ LastResult(s)'.res = "Err"
             /\ Len(out'[s]) = Len(out[s]) + 1
             /\ state'[s] = state[s]
             /\ alive'[s] = "running"
             /\ pc'[s] = "idle"]_vars

\* A handler of the session moves in this step: it takes a message, resumes
\* after a reply, returns, or panics and ends the actor.
OperationOn(a) ==
    \/ Took(a)
    \/ Returned(a)
    \/ pc'[a] # pc[a]
    \/ alive[a] = "running" /\ alive'[a] = "dead"

\* C14: a step of a handler of session a (a client request, an event pushed
\* to a, the panic that ends a) writes no frame to the transport of another
\* session b and leaves b's state, actor, mailbox and handler as they were;
\* every MatchEvent frame is written to the transport of the session the
\* event was pushed to, by that session's send_event.
C14_SessionsIndependent ==
    [][\A a \in Sessions :
          /\ OperationOn(a) =>
                \A b \in Sessions \ {a} :
                   /\ out'[b] = out[b]
                   /\ state'[b] = state[b]
                   /\ alive'[b] = alive[b]
                   /\ mailbox'[b] = mailbox[b]
                   /\ pc'[b] = pc[b]
                   /\ cur'[b] = cur[b]
                   /\ results'[b] = results[b]
          /\ (/\ out'[a] # out[a]
              /\ Last(out'[a]).body.tag = "MatchEvent")
             => /\ Last(out'[a]).body.session = a
                /\ Took(a)
                /\ cur'[a].arg = Last(out'[a]).body]_vars

\* An event pushed to one session was written to its transport while another
\* session runs in a match of its own and has received no event.
C14_Witness ==
    \E a, b \in Sessions :
       /\ a # b
       /\ \E i \in DOMAIN out[a] : out[a][i].body.tag = "MatchEvent"
       /\ alive[b] = "running"
       /\ state[b].tag = "InMatch"
       /\ \A i \in DOMAIN out[b] : out[b][i].body.tag # "MatchEvent"

\* C15 (as claimed): match controllers push events only to sessions whose
\* join they accepted (push_event), and then no send_event is taken while
\* the state of its session is Idle.
C15_NoEventWhileIdle ==
    [][\A s \in Sessions :
          (Took(s) /\ cur'[s].op = "send_event") => state[s].tag = "InMatch"]_vars

\* C16 (as claimed): a failed write of the match-start response, like a
\* failed write of an event, ends the session.
C16_WriteFailureTerminal ==
    [][\A s \in Sessions :
          /\ (/\ pc[s] = "join"
              /\ call[s].status = "done"
              /\ call[s].ret.ok
              /\ Returned(s)
              /\ out'[s] = out[s])
             => alive'[s] = "dead"
          /\ (/\ Took(s)
              /\ cur'[s].op = "send_event"
              /\ state[s].tag = "InMatch"
              /\ out'[s] = out[s])
             => alive'[s] = "dead"]_vars

\* C17: once the state of a session is InMatch, it is InMatch after every
\* later step.
C17_StateMonotonic ==
    [][\A s \in Sessions :
          state[s].tag = "InMatch" => state'[s].tag = "InMatch"]_vars

\* A session in a match handled a later request that failed, and is still
\* in a match.
C17_Witness ==
    \E s \in Sessions :
       /\ state[s].tag = "InMatch"
       /\ Len(results[s]) >= 2
       /\ results[s][1].res = "Ok"
       /\ results[s][1].arg = TextFrame(StartMatch)
       /\ LastResult(s).res \in {"Err", "Panic"}

\* C18: a StartMatch taken while the session is InMatch is not refused: it
\* calls start_match as from Idle; while its handler runs, the controller
\* held so far receives no call and keeps the handle of the session; when
\* the handler returns Ok it did start_match, join(own handle, East) on the
\* new controller and the write of the response, and the state holds the
\* new controller in place of the earlier one.
C18_StartMatchWhileInMatch ==
    [][\A s \in Sessions :
          /\ (/\ Took(s)
              /\ cur'[s].op = "handle_message"
              /\ cur'[s].arg = TextFrame(StartMatch)
              /\ state[s].tag = "InMatch")
             => \/ /\ pc'[s] = "start_match"
                   /\ call'[s] = Sent("start_match", "game", None)
                   /\ ops'[s] = <<[op |-> "start_match"]>>
                   /\ state'[s] = state[s]
                \/ /\ Returned(s)
                   /\ LastResult(s)'.res = "Panic"
          /\ (/\ inflight[s] # {}
              /\ cur[s].arg = TextFrame(StartMatch)
              /\ state[s].tag = "InMatch")
             => /\ calls'[state[s].controller] = calls[state[s].controller]
                /\ s \in joined'[state[s].controller]
          /\ (/\ Returned(s)
              /\ LastResult(s)'.arg = TextFrame(StartMatch)
              /\ LastResult(s)'.res = "Ok"
              /\ state[s].tag = "InMatch")
             => \E m \in Matches \ {state[s].controller} :
                   /\ state'[s] = InMatch(m)
                   /\ ops'[s] =
                        <<[op |-> "start_match"],
                          [op |-> "join", to |-> m, handle |-> s, seat |-> "East"],
                          [op |-> "write",
                           frame |-> StartMatchResponse(call[s].ret.value)],
                          [op |-> "state", state |-> InMatch(m)]>>
                   /\ out'[s] = Append(out[s], StartMatchResponse([match |-> m]))
                   /\ calls[m] = <<[op |-> "join", handle |-> s, seat |-> "East"]>>
                   /\ s \in joined[m]
                   /\ s \in joined[state[s].controller]]_vars

\* A session started a second match: its state holds the second controller,
\* and the first, which got the one join and nothing since, holds its handle.
C18_Witness ==
    \E s \in Sessions, m0, m \in Matches :
       /\ m0 # m
       /\ Len(results[s]) = 2
       /\ results[s][1].arg = TextFrame(StartMatch) /\ results[s][1].res = "Ok"
       /\ results[s][2].arg = TextFrame(StartMatch) /\ results[s][2].res = "Ok"
       /\ state[s] = InMatch(m)
       /\ s \in joined[m0]
       /\ calls[m0] = <<[op |-> "join", handle |-> s, seat |-> "East"]>>

\* C19: a DiscardTile taken while InMatch sends one discard_tile call with
\* the player and tile of the request to the controller held in the state
\* and suspends (or panics at the call when that controller is gone); the
\* controller receives that call once, with these values; no message is
\* taken before the reply; on the reply Ok the handler returns Ok having
\* made that one call, with the state unchanged and no frame written.
C19_DiscardForwarded ==
    [][\A s \in Sessions :
          /\ (/\ Took(s)
              /\ cur'[s].op = "handle_message"
              /\ cur'[s].arg \in DiscardFrames
              /\ state[s].tag = "InMatch")
             => \/ /\ pc'[s] = "discard_tile"
                   /\ call'[s] = Sent("discard_tile", state[s].controller,
                                      <<cur'[s].arg.body.player,
                                        cur'[s].arg.body.tile>>)
                   /\ ops'[s] = <<[op |-> "discard_tile",
                                   to |-> state[s].controller,
                                   player |-> cur'[s].arg.body.player,
                                   tile |-> cur'[s].arg.body.tile]>>
                   /\ inflight'[s] = {cur'[s].seq}
                   /\ state'[s] = state[s]
                   /\ out'[s] = out[s]
                \/ /\ Returned(s)
                   /\ LastResult(s)'.res = "Panic"
                   /\ ops'[s] = <<>>
          /\ (/\ pc[s] = "discard_tile"
              /\ call[s].status = "sent"
              /\ call'[s] # call[s])
             => LET m == state[s].controller
                IN /\ call'[s].status = "done"
                   /\ calls'[m] = Append(calls[m],
                         [op |-> "discard_tile",
                          player |-> cur[s].arg.body.player,
                          tile |-> cur[s].arg.body.tile])
                   /\ \A n \in Matches \ {m} : calls'[n] = calls[n]
          /\ pc[s] = "discard_tile" => ~Took(s)
          /\ (pc[s] = "discard_tile" /\ Returned(s))
             => /\ call[s].status = "done"
                /\ call[s].ret.ok =>
                      /\ LastResult(s)'.res = "Ok"
                      /\ LastResult(s)'.seq = cur[s].seq
                      /\ Len(ops'[s]) = 1
                      /\ state'[s] = state[s]
                      /\ out'[s] = out[s]
                      /\ alive'[s] = "running"]_vars

\* A discard of the South player was forwarded to the controller of the
\* session's match and returned Ok.
C19_Witness ==
    \E s \in Sessions, m \in Matches :
       /\ state[s] = InMatch(m)
       /\ LastResult(s).arg = TextFrame(DiscardTile("South", "t2"))
       /\ LastResult(s).res = "Ok"
       /\ Last(calls[m]) = [op |-> "discard_tile", player |-> "South", tile |-> "t2"]
       /\ Len(calls[m]) = 2

\* C20 (as claimed): a handshake that ended without a session has not had
\* create_account called.
C20_NoAccountOnFailure ==
    \A c \in Sessions :
       hs_result[c] \notin {"pending", "Ok"} => accounts[c] = 0

\* C20 (amended): a handshake that ended without a session before it called
\* create_account (at receiving, decoding, the version check, the
\* credentials or the call itself) has created no account; the one other
\* failure is the send of the HandshakeResponse, which returns Err after
\* create_account was called once, with the priming frame the only frame sent.
C20_AccountOnlyBeforeResponse ==
    \A c \in Sessions :
       hs_result[c] \notin {"pending", "Ok"} =>
          IF \E i \in DOMAIN hs_ops[c] : hs_ops[c][i] = "create_account"
          THEN /\ hs_ops[c] = <<"ping", "recv", "create_account">>
               /\ accounts[c] = 1
               /\ hs_result[c] = "Err"
               /\ out[c] = <<Ping>>
               /\ alive[c] = "none"
          ELSE accounts[c] = 0

\* A handshake created an account and then failed to send the response.
C20_Witness ==
    \E c \in Sessions :
       /\ hs_result[c] = "Err"
       /\ hs_account[c] # None
       /\ accounts[c] = 1
       /\ alive[c] = "none"

\* C12: while fewer calls of next() than the counter has values were made,
\* the call that did the i-th fetch_add returned i - 1 (the previous value,
\* from 0) and the counter is the number of calls; so the ids returned are
\* pairwise distinct, also those of calls that overlap, and a call invoked
\* after another returned has the greater id.
C12_IdsDistinctIncreasing ==
    Len(issued) < IdModulus =>
       /\ counter = Len(issued)
       /\ \A i \in DOMAIN issued : issued[i].id = i - 1
       /\ \A i, j \in DOMAIN issued : i # j => issued[i].id # issued[j].id
       /\ \A i, j \in DOMAIN issued :
             (i < j /\ issued[j].inv >= i) => issued[i].id < issued[j].id

\* Two callers were inside next() at the same time, and a third call was
\* made after both returned.
C12_Witness ==
    /\ Len(issued) = 3
    /\ Len(issued) < IdModulus
    /\ issued[1].by # issued[2].by
    /\ issued[2].inv = 0
    /\ issued[3].inv = 2

\* C13 (as claimed): no two sessions that are active at the same time have
\* the same ClientId, also when more sessions were created than the counter
\* has values.
C13_ActiveIdsUnique ==
    \A i, j \in DOMAIN issued \ ended :
       i # j => issued[i].id # issued[j].id

====
